---- MODULE Spec2Model ----
(***************************************************************************)
(* Model of src/src/deepDives.ts: the Deep-dive digest.                    *)
(*                                                                         *)
(* Strings are sequences of tokens (a token is a TLA+ string), so that     *)
(* searching, matching and joining are computed and not assumed.           *)
(* A JavaScript object is a record; a property that is undefined is a      *)
(* field that is not in the record's DOMAIN.                               *)
(* Time is in milliseconds, relative to the instant the run starts.        *)
(*                                                                         *)
(* The regular expressions of the source carry the inline flag (?s); the   *)
(* model gives them the meaning that flag has where it exists: `.' matches *)
(* every character, line terminators included.                             *)
(***************************************************************************)
EXTENDS Integers, Sequences, FiniteSets, TLC

VARIABLES
    now,          \* the wall clock read by `new Date()'
    kit,          \* what kit.paginate hands back: "promise" or "array"
    issues,       \* the issue list the API answered with
    topPc,        \* getAndFormatDeepDiveUpdates: start, awaitIssues, resolved, rejected
    topResult,    \* the string it resolves with
    topError,     \* the error it rejects with
    gdiPc,        \* getDeepDiveIssues: idle, mapping, awaitMap, resolved, rejected
    gdiError,     \* the error it rejects with
    mapIdx,       \* index of the issue Array.prototype.map is at
    allIssues,    \* the value getDeepDiveIssues resolves with
    tasks,        \* one async map callback per issue
    fetches,      \* per issue, number of comment-list requests made
    fmtPc,        \* lines 129-133 on their own: off, map, joined
    fmtLast,      \* the record last handed to formatDeepDiveUpdate
    updatesArray, \* the formatted updates so far
    fmtDigest,    \* the string lines 131-133 build
    muPc,         \* getMissingUpdates on its own: off, call, await, returned, rejected
    muDue,        \* its dueDate argument
    muComments,   \* the comments its request was answered with
    muResult,     \* the object it returns
    muFetches     \* number of comment-list requests it made

vars == <<now, kit, issues, topPc, topResult, topError, gdiPc, gdiError,
          mapIdx, allIssues, tasks, fetches, fmtPc, fmtLast, updatesArray,
          fmtDigest, muPc, muDue, muComments, muResult, muFetches>>

pipeRest == <<kit, issues, topPc, topResult, topError, gdiPc, gdiError,
              mapIdx, allIssues, tasks, fetches>>

fmtVars == <<fmtPc, fmtLast, updatesArray, fmtDigest>>

muVars == <<muPc, muDue, muComments, muResult, muFetches>>

----------------------------------------------------------------------------
(* Bounds *)

MaxIssues == 2
MaxComments == 2
MaxClock == 1
MaxUpdates == 3

----------------------------------------------------------------------------
(* Constants and values *)

oneDayMs == 1000 * 60 * 60 * 24

\* The value of a variable that has not been assigned.
Undefined == [undefined |-> TRUE]

Min(S) == CHOOSE m \in S : \A n \in S : m <= n
Max(S) == CHOOSE m \in S : \A n \in S : m >= n

\* JavaScript truthiness of the property f of the object r.
Truthy(r, f) == f \in DOMAIN r /\ r[f] = TRUE

\* The property f of the object r.
Prop(r, f) == IF f \in DOMAIN r THEN r[f] ELSE Undefined

----------------------------------------------------------------------------
(* Strings *)

\* pat occurs in s at position i.
OccursAt(s, pat, i) ==
    /\ i >= 1
    /\ i + Len(pat) - 1 <= Len(s)
    /\ SubSeq(s, i, i + Len(pat) - 1) = pat

\* String.prototype.includes
Includes(s, pat) == \E i \in 1..(Len(s) + 1) : OccursAt(s, pat, i)

\* String.prototype.match for the global, dot-all pattern  P(.*)Q :
\* the array of the matched texts, or null (the empty sequence here, since
\* match never answers an empty array).  The first match starts at the
\* leftmost P that has a Q after it and, being greedy, runs to the last Q;
\* nothing after the last Q can match again.
MatchAll(s, P, Q) ==
    LET ends(i) == {j \in (i + Len(P))..(Len(s) + 1) : OccursAt(s, Q, j)}
        starts == {i \in 1..Len(s) : OccursAt(s, P, i) /\ ends(i) # {}}
    IN  IF starts = {} THEN <<>>
        ELSE LET i == Min(starts)
                 j == Max(ends(i))
             IN  <<SubSeq(s, i, j + Len(Q) - 1)>>

----------------------------------------------------------------------------
(* Dates *)

DateTexts == {"<yesterday>", "<in one day and 1 ms>"}

\* The instant a date text of an issue body denotes.
DateValue(d) == IF d = "<yesterday>" THEN 0 - oneDayMs ELSE oneDayMs + 1

\* Date.prototype.toISOString and new Date(iso).getTime(): an ISO string
\* carries the instant to the millisecond.
toISOString(t) == [iso |-> t]
getTime(s) == s.iso

\* new Date(text) for a text that is not in the ISO format:
\* the set of instants an engine may recover from it.  NaN (an invalid
\* date) is always a possible outcome and is not in this set.
DateParse(text) == {DateValue(text[i]) : i \in {k \in 1..Len(text) : text[k] \in DateTexts}}

----------------------------------------------------------------------------
(* Text extractors *)

TimingRegexHead == <<"## Timing">>
TimingRegexTail == <<"[Google Event">>
LeaderRegexHead == <<"Leader", ":">>
LeaderRegexTail == <<"Notetaker">>
NotetakerRegexHead == <<"Notetaker", ":">>

\* getDueDateFromDeepDiveBody: the destructuring of lines 22-23.
DueDateMatch(issueBody) == MatchAll(issueBody, TimingRegexHead, TimingRegexTail)

\* getDueDateFromDeepDiveBody throws before it reaches the date: match
\* answered null (the destructuring throws a TypeError) or the matched text
\* is empty (line 24).
DueDateThrows(issueBody) ==
    IF DueDateMatch(issueBody) = <<>> THEN TRUE
    ELSE Len(DueDateMatch(issueBody)[1]) = 0

\* getMissingFieldsFromDeepDiveBody throws: one of the two match calls
\* answered null and its destructuring throws a TypeError.
MissingFieldsThrows(issueBody) ==
    IF MatchAll(issueBody, NotetakerRegexHead, <<>>) = <<>> THEN TRUE
    ELSE MatchAll(issueBody, LeaderRegexHead, LeaderRegexTail) = <<>>

getMissingFieldsFromDeepDiveBody(issueBody) ==
    LET notetaker == MatchAll(issueBody, NotetakerRegexHead, <<>>)[1]
        leader == MatchAll(issueBody, LeaderRegexHead, LeaderRegexTail)[1]
    IN  [notetaker |-> Len(notetaker) > 0, leader |-> Len(leader) > 0]

----------------------------------------------------------------------------
(* Status evaluator *)

RecordingLink == "github.rewatch.com"
NotesLink == "/accessibility/blob/main/docs/deep-dive-notes/"

\* line 42
PastDue(dueDate, t) == (getTime(dueDate) - t) <= oneDayMs

GetMissingUpdatesStartNoEarlyReturn(dueDate, t) ==
    [pastDue |-> PastDue(dueDate, t), fetch |-> TRUE]

\* getMissingUpdates up to its first await: the early return of lines 44-46
\* or the request of line 49.
GetMissingUpdatesStart(dueDate, t) ==
    [pastDue |-> PastDue(dueDate, t), fetch |-> PastDue(dueDate, t)]

ScanCommentsFirstOnly(comments) ==
    [needsRecording |-> ~(Len(comments) > 0 /\ Includes(comments[1], <<RecordingLink>>)),
     needsNotes |-> ~(Len(comments) > 0 /\ Includes(comments[1], <<NotesLink>>)),
     pastDue |-> TRUE]

RECURSIVE ForEachComment(_, _, _)
\* comments.forEach of lines 57-67, acc holding needsRecording and needsNotes
ForEachComment(comments, k, acc) ==
    IF k > Len(comments) THEN acc
    ELSE LET body == comments[k]
             a1 == IF Includes(body, <<RecordingLink>>)
                   THEN [acc EXCEPT !.needsRecording = FALSE] ELSE acc
             a2 == IF Includes(body, <<NotesLink>>)
                   THEN [a1 EXCEPT !.needsNotes = FALSE] ELSE a1
         IN  ForEachComment(comments, k + 1, a2)

\* getMissingUpdates after the await: lines 55-69 (pastDue is true here)
ScanComments(comments) ==
    LET acc == ForEachComment(comments, 1, [needsRecording |-> TRUE, needsNotes |-> TRUE])
    IN  [needsRecording |-> acc.needsRecording, needsNotes |-> acc.needsNotes,
         pastDue |-> TRUE]

----------------------------------------------------------------------------
(* Issue collector: the map callback after its await *)

IsTomorrowStrict(dueDate, t) == (getTime(dueDate) - t) < oneDayMs

\* line 92
IsTomorrow(dueDate, t) == (getTime(dueDate) - t) <= oneDayMs

\* lines 82-98
MappedIssue(issue, dueDate, missingUpdates, t) ==
    LET mappedIssue == [dueDate |-> dueDate,
                        id |-> issue.id,
                        url |-> issue.url,
                        missingFields |-> getMissingFieldsFromDeepDiveBody(issue.body),
                        missingUpdates |-> missingUpdates,
                        title |-> issue.title]
    IN  IF IsTomorrow(dueDate, t)
           /\ (mappedIssue.missingFields.leader \/ mappedIssue.missingFields.leader)
        THEN mappedIssue @@ [highPriority |-> TRUE]
        ELSE mappedIssue

----------------------------------------------------------------------------
(* Formatter *)

ReasonRecordingFirst(deepDiveUpdate) ==
    IF Truthy(deepDiveUpdate, "highPriority") /\ Truthy(Prop(deepDiveUpdate, "missingFields"), "leader")
    THEN <<"Needs a leader ",
           IF Truthy(Prop(deepDiveUpdate, "missingFields"), "notetaker") THEN "and a notetaker" ELSE "",
           " to volunteer">>
    ELSE IF Truthy(deepDiveUpdate, "highPriority") /\ Truthy(Prop(deepDiveUpdate, "missingFields"), "notetaker")
    THEN <<"Needs a notetaker to volunteer">>
    ELSE IF Truthy(Prop(deepDiveUpdate, "missingUpdates"), "pastDue")
            /\ Truthy(Prop(deepDiveUpdate, "missingUpdates"), "needsRecording")
    THEN <<"Needs a rewatch recording">>
    ELSE IF Truthy(Prop(deepDiveUpdate, "missingUpdates"), "pastDue")
            /\ Truthy(Prop(deepDiveUpdate, "missingUpdates"), "needsNotes")
    THEN <<"Needs notes">>
    ELSE <<"undefined">>

\* lines 105-123; an undefined reason is rendered by the template literal
\* of line 124 as the text "undefined"
Reason(deepDiveUpdate) ==
    IF Truthy(deepDiveUpdate, "highPriority") /\ Truthy(Prop(deepDiveUpdate, "missingFields"), "leader")
    THEN <<"Needs a leader ",
           IF Truthy(Prop(deepDiveUpdate, "missingFields"), "notetaker") THEN "and a notetaker" ELSE "",
           " to volunteer">>
    ELSE IF Truthy(deepDiveUpdate, "highPriority") /\ Truthy(Prop(deepDiveUpdate, "missingFields"), "notetaker")
    THEN <<"Needs a notetaker to volunteer">>
    ELSE IF Truthy(Prop(deepDiveUpdate, "missingUpdates"), "pastDue")
            /\ Truthy(Prop(deepDiveUpdate, "missingUpdates"), "needsNotes")
    THEN <<"Needs notes">>
    ELSE IF Truthy(Prop(deepDiveUpdate, "missingUpdates"), "pastDue")
            /\ Truthy(Prop(deepDiveUpdate, "missingUpdates"), "needsRecording")
    THEN <<"Needs a rewatch recording">>
    ELSE <<"undefined">>

FormatNeverThrows(deepDiveUpdate) == FALSE

\* formatDeepDiveUpdate throws a TypeError: it reads a property of
\* missingFields (line 107) or of missingUpdates (line 115) and that object
\* is undefined.
FormatThrows(deepDiveUpdate) ==
    IF Truthy(deepDiveUpdate, "highPriority") /\ "missingFields" \notin DOMAIN deepDiveUpdate
    THEN TRUE
    ELSE IF Truthy(deepDiveUpdate, "highPriority")
            /\ (Truthy(deepDiveUpdate.missingFields, "leader")
                \/ Truthy(deepDiveUpdate.missingFields, "notetaker"))
    THEN FALSE
    ELSE "missingUpdates" \notin DOMAIN deepDiveUpdate

\* the text of a property inside a template literal
Text(r, f) == IF f \in DOMAIN r THEN r[f] ELSE "undefined"

\* line 124
formatDeepDiveUpdate(deepDiveUpdate) ==
    (IF Truthy(deepDiveUpdate, "highPriority") THEN <<":warning: Tomorrow's ">> ELSE <<>>)
    \o <<"[", Text(deepDiveUpdate, "title"), "](", Text(deepDiveUpdate, "url"), "): ">>
    \o Reason(deepDiveUpdate)

RECURSIVE Join(_, _)
\* Array.prototype.join
Join(arr, sep) ==
    IF Len(arr) = 0 THEN <<>>
    ELSE IF Len(arr) = 1 THEN arr[1]
    ELSE arr[1] \o sep \o Join(Tail(arr), sep)

\* lines 131-133
Digest(updates) ==
    IF Len(updates) # 0
    THEN <<"<li>">> \o Join(updates, <<"</li>\n">>)
    ELSE <<>>

----------------------------------------------------------------------------
(* Inputs *)

\* The texts an issue body is made of.
Timing(d) == <<"## Timing", "\n", d, "[Google Event", "\n">>
Roles(l, n) == <<"Leader", ":">> \o l \o <<"\n", "Notetaker", ":">> \o n

\* The open issues carrying the label: each way a body can lack a section,
\* each date, and each way the two roles can be filled.
OpenIssues ==
    {[id |-> 101, url |-> "url101", title |-> "title101",
      body |-> Roles(<<"@name">>, <<"@name">>)],
     [id |-> 102, url |-> "url102", title |-> "title102",
      body |-> Timing("<yesterday>") \o Roles(<<"@name">>, <<"@name">>)],
     [id |-> 103, url |-> "url103", title |-> "title103",
      body |-> Timing("<yesterday>") \o Roles(<<>>, <<"@name">>)],
     [id |-> 104, url |-> "url104", title |-> "title104",
      body |-> Timing("<in one day and 1 ms>") \o Roles(<<"@name">>, <<>>)],
     [id |-> 105, url |-> "url105", title |-> "title105",
      body |-> Timing("<in one day and 1 ms>")]}

\* An answer of the API: some of the open issues, each once, in some order.
IssueLists ==
    UNION {{l \in [1..n -> OpenIssues] : \A j, k \in 1..n : j # k => l[j] # l[k]} :
           n \in 0..MaxIssues}

CommentBodies == {<<"text">>, <<"see ", RecordingLink>>, <<NotesLink, "x.md">>}

CommentLists == UNION {[1..n -> CommentBodies] : n \in 0..MaxComments}

\* a map callback that has not been called yet
NewTask == [pc |-> "unstarted", dueDate |-> Undefined,
            missingUpdates |-> Undefined, value |-> Undefined, error |-> ""]

----------------------------------------------------------------------------
(* The run: getAndFormatDeepDiveUpdates -> getDeepDiveIssues *)

\* Nothing has been called.
PipeIdle ==
    /\ now = 0
    /\ issues = <<>>
    /\ topPc = "start"
    /\ topResult = <<>>
    /\ topError = ""
    /\ gdiPc = "idle"
    /\ gdiError = ""
    /\ mapIdx = 1
    /\ allIssues = <<>>
    /\ tasks = <<>>
    /\ fetches = <<>>

FmtIdle ==
    /\ fmtPc = "off"
    /\ fmtLast = Undefined
    /\ updatesArray = <<>>
    /\ fmtDigest = <<>>

MuIdle ==
    /\ muPc = "off"
    /\ muDue = Undefined
    /\ muComments = <<>>
    /\ muResult = Undefined
    /\ muFetches = 0

Init ==
    /\ PipeIdle
    /\ kit \in {"promise", "array"}
    /\ FmtIdle
    /\ MuIdle

\* Time passes.
Tick ==
    /\ now < MaxClock
    /\ now' = now + 1
    /\ UNCHANGED <<kit, issues, topPc, topResult, topError, gdiPc, gdiError,
                   mapIdx, allIssues, tasks, fetches>>
    /\ UNCHANGED <<fmtVars, muVars>>

\* Line 128 calls getDeepDiveIssues, which runs to the call of map in
\* line 79.  kit.paginate answers a promise, which has no map (TypeError),
\* or fails, or answers the array of the issues.
Run ==
    /\ topPc = "start"
    /\ topPc' = "awaitIssues"
    /\ \/ /\ kit = "promise"
          /\ gdiPc' = "rejected"
          /\ gdiError' = "TypeError"
          /\ UNCHANGED <<issues, tasks, fetches>>
       \/ /\ kit = "array"
          /\ gdiPc' = "rejected"
          /\ gdiError' = "HttpError"
          /\ UNCHANGED <<issues, tasks, fetches>>
       \/ /\ kit = "array"
          /\ \E list \in IssueLists :
                /\ issues' = list
                /\ tasks' = [k \in 1..Len(list) |-> NewTask]
                /\ fetches' = [k \in 1..Len(list) |-> 0]
                /\ gdiPc' = IF Len(list) = 0 THEN "awaitMap" ELSE "mapping"
          /\ UNCHANGED gdiError
    /\ UNCHANGED <<now, kit, topResult, topError, mapIdx, allIssues>>
    /\ UNCHANGED <<fmtVars, muVars>>

\* The map callback of lines 79-81 for the issue map is at, up to its
\* await: the due date, then getMissingUpdates up to its return or await.
MapCallback ==
    /\ gdiPc = "mapping"
    /\ LET i == mapIdx
           body == issues[i].body
       IN  /\ \/ /\ DueDateThrows(body)
                 /\ tasks' = [tasks EXCEPT ![i].pc = "rejected", ![i].error = "TypeError"]
                 /\ UNCHANGED fetches
              \/ /\ ~DueDateThrows(body)
                 \* the engine does not recognise the text: toISOString
                 \* of an invalid date throws
                 /\ tasks' = [tasks EXCEPT ![i].pc = "rejected", ![i].error = "RangeError"]
                 /\ UNCHANGED fetches
              \/ /\ ~DueDateThrows(body)
                 /\ \E t \in DateParse(DueDateMatch(body)[1]) :
                       LET dueDate == toISOString(t)
                           start == GetMissingUpdatesStart(dueDate, now)
                       IN  IF start.fetch
                           THEN /\ fetches' = [fetches EXCEPT ![i] = @ + 1]
                                /\ tasks' = [tasks EXCEPT ![i].pc = "awaitComments",
                                                          ![i].dueDate = dueDate]
                           ELSE /\ tasks' = [tasks EXCEPT ![i].pc = "awaitMissing",
                                                          ![i].dueDate = dueDate,
                                                          ![i].missingUpdates = [pastDue |-> start.pastDue]]
                                /\ UNCHANGED fetches
           /\ mapIdx' = i + 1
           /\ gdiPc' = IF i = Len(issues) THEN "awaitMap" ELSE "mapping"
    /\ UNCHANGED <<now, kit, issues, topPc, topResult, topError, gdiError, allIssues>>
    /\ UNCHANGED <<fmtVars, muVars>>

\* getDeepDiveIssues resumes from the await of line 74 and returns the
\* array map built: one promise per issue.
GdiResume ==
    /\ gdiPc = "awaitMap"
    /\ gdiPc' = "resolved"
    /\ allIssues' = [k \in 1..Len(issues) |-> [promise |-> k]]
    /\ UNCHANGED <<now, kit, issues, topPc, topResult, topError, gdiError,
                   mapIdx, tasks, fetches>>
    /\ UNCHANGED <<fmtVars, muVars>>

\* getAndFormatDeepDiveUpdates resumes from the await of line 128.
TopResume ==
    /\ topPc = "awaitIssues"
    /\ \/ /\ gdiPc = "rejected"
          /\ topPc' = "rejected"
          /\ topError' = gdiError
          /\ UNCHANGED topResult
       \/ /\ gdiPc = "resolved"
          /\ \E k \in 1..Len(allIssues) : FormatThrows(allIssues[k])
          /\ topPc' = "rejected"
          /\ topError' = "TypeError"
          /\ UNCHANGED topResult
       \/ /\ gdiPc = "resolved"
          /\ \A k \in 1..Len(allIssues) : ~FormatThrows(allIssues[k])
          /\ topPc' = "resolved"
          /\ topResult' = Digest([k \in 1..Len(allIssues) |-> formatDeepDiveUpdate(allIssues[k])])
          /\ UNCHANGED topError
    /\ UNCHANGED <<now, kit, issues, gdiPc, gdiError, mapIdx, allIssues, tasks, fetches>>
    /\ UNCHANGED <<fmtVars, muVars>>

\* The request of line 49 is answered with the comments of the issue:
\* getMissingUpdates resumes from its await and returns.
FetchComplete(i) ==
    /\ gdiPc # "mapping"
    /\ tasks[i].pc = "awaitComments"
    /\ \E comments \in CommentLists :
          tasks' = [tasks EXCEPT ![i].pc = "awaitMissing",
                                 ![i].missingUpdates = ScanComments(comments)]
    /\ UNCHANGED <<now, kit, issues, topPc, topResult, topError, gdiPc, gdiError,
                   mapIdx, allIssues, fetches>>
    /\ UNCHANGED <<fmtVars, muVars>>

\* The request of line 49 fails: getMissingUpdates rejects and so does the
\* map callback awaiting it.
FetchFail(i) ==
    /\ gdiPc # "mapping"
    /\ tasks[i].pc = "awaitComments"
    /\ tasks' = [tasks EXCEPT ![i].pc = "rejected", ![i].error = "HttpError"]
    /\ UNCHANGED <<now, kit, issues, topPc, topResult, topError, gdiPc, gdiError,
                   mapIdx, allIssues, fetches>>
    /\ UNCHANGED <<fmtVars, muVars>>

\* The map callback resumes from the await of line 81 and runs to its end.
BuildRecord(i) ==
    /\ gdiPc # "mapping"
    /\ tasks[i].pc = "awaitMissing"
    /\ IF MissingFieldsThrows(issues[i].body)
       THEN tasks' = [tasks EXCEPT ![i].pc = "rejected", ![i].error = "TypeError"]
       ELSE tasks' = [tasks EXCEPT ![i].pc = "fulfilled",
                                   ![i].value = MappedIssue(issues[i], tasks[i].dueDate,
                                                            tasks[i].missingUpdates, now)]
    /\ UNCHANGED <<now, kit, issues, topPc, topResult, topError, gdiPc, gdiError,
                   mapIdx, allIssues, fetches>>
    /\ UNCHANGED <<fmtVars, muVars>>

Next ==
    \/ Tick
    \/ Run
    \/ MapCallback
    \/ GdiResume
    \/ TopResume
    \/ \E i \in 1..Len(tasks) : FetchComplete(i)
    \/ \E i \in 1..Len(tasks) : FetchFail(i)
    \/ \E i \in 1..Len(tasks) : BuildRecord(i)

Spec == Init /\ [][Next]_vars

----------------------------------------------------------------------------
(* getMissingUpdates on its own, for every due date, instant and answer *)

\* Due dates on both sides of every instant the source compares with.
DueInstants ==
    {0 - 2 * oneDayMs, 0 - oneDayMs, 1 - oneDayMs, 0, oneDayMs, oneDayMs + 1,
     3 * oneDayMs}

InitMissingUpdates ==
    /\ PipeIdle
    /\ kit = "array"
    /\ FmtIdle
    /\ muPc = "call"
    /\ muDue \in {toISOString(t) : t \in DueInstants}
    /\ muComments = <<>>
    /\ muResult = Undefined
    /\ muFetches = 0

\* lines 40-53: the call, up to the early return or the await
MuCall ==
    /\ muPc = "call"
    /\ LET start == GetMissingUpdatesStart(muDue, now)
       IN  IF start.fetch
           THEN /\ muFetches' = muFetches + 1
                /\ muPc' = "await"
                /\ UNCHANGED muResult
           ELSE /\ muResult' = [pastDue |-> start.pastDue]
                /\ muPc' = "returned"
                /\ UNCHANGED muFetches
    /\ UNCHANGED <<muDue, muComments>>
    /\ UNCHANGED <<now, pipeRest, fmtVars>>

\* lines 55-69: the request is answered
MuAnswer ==
    /\ muPc = "await"
    /\ \E comments \in CommentLists :
          /\ muComments' = comments
          /\ muResult' = ScanComments(comments)
    /\ muPc' = "returned"
    /\ UNCHANGED <<muDue, muFetches>>
    /\ UNCHANGED <<now, pipeRest, fmtVars>>

\* the request fails
MuFail ==
    /\ muPc = "await"
    /\ muPc' = "rejected"
    /\ UNCHANGED <<muDue, muComments, muResult, muFetches>>
    /\ UNCHANGED <<now, pipeRest, fmtVars>>

NextMissingUpdates == Tick \/ MuCall \/ MuAnswer \/ MuFail

SpecMissingUpdates == InitMissingUpdates /\ [][NextMissingUpdates]_vars

----------------------------------------------------------------------------
(* Lines 129-133 on their own, for every update record *)

\* Every object of the type DeepDiveIssueUpdate, as far as
\* formatDeepDiveUpdate reads it.
MissingUpdatesObjects ==
    {[pastDue |-> FALSE]}
    \cup [pastDue : BOOLEAN, needsRecording : BOOLEAN, needsNotes : BOOLEAN]

UpdateRecords ==
    LET base == {[dueDate |-> toISOString(0), id |-> 101, url |-> "url101",
                  title |-> "title101", missingFields |-> mf, missingUpdates |-> mu] :
                     mf \in [leader : BOOLEAN, notetaker : BOOLEAN],
                     mu \in MissingUpdatesObjects}
    IN  base \cup {b @@ [highPriority |-> h] : b \in base, h \in BOOLEAN}

InitFormat ==
    /\ PipeIdle
    /\ kit = "array"
    /\ MuIdle
    /\ fmtPc = "map"
    /\ fmtLast = Undefined
    /\ updatesArray = <<>>
    /\ fmtDigest = <<>>

\* line 129: map hands the next update to formatDeepDiveUpdate
FormatNext ==
    /\ fmtPc = "map"
    /\ Len(updatesArray) < MaxUpdates
    /\ \E r \in UpdateRecords :
          /\ ~FormatThrows(r)
          /\ fmtLast' = r
          /\ updatesArray' = Append(updatesArray, formatDeepDiveUpdate(r))
    /\ UNCHANGED <<fmtPc, fmtDigest>>
    /\ UNCHANGED <<now, pipeRest, muVars>>

\* lines 131-133
JoinUpdates ==
    /\ fmtPc = "map"
    /\ fmtDigest' = Digest(updatesArray)
    /\ fmtPc' = "joined"
    /\ UNCHANGED <<fmtLast, updatesArray>>
    /\ UNCHANGED <<now, pipeRest, muVars>>

NextFormat == FormatNext \/ JoinUpdates

SpecFormat == InitFormat /\ [][NextFormat]_vars

----------------------------------------------------------------------------
(* What the claims speak of *)

\* The role is unfilled in the body: its label is followed by no name.
RoleUnfilled(issueBody, label) ==
    LET at == {i \in 1..Len(issueBody) : OccursAt(issueBody, <<label, ":">>, i)}
    IN  IF at = {} THEN TRUE
        ELSE IF Min(at) + 2 > Len(issueBody) THEN TRUE
        ELSE issueBody[Min(at) + 2] # "@name"

\* The map callback of issue i runs from its await to its end in this step
\* and fulfils its promise.
Builds(i) == tasks[i].pc = "awaitMissing" /\ tasks'[i].pc = "fulfilled"

\* The map callback of issue i is called in this step and gets past the
\* due date.
Calls(i) == tasks[i].pc = "unstarted" /\ tasks'[i].dueDate # Undefined

Fulfilled == {i \in 1..Len(tasks) : tasks[i].pc = "fulfilled"}

Rejected == {i \in 1..Len(tasks) : tasks[i].pc = "rejected"}

\* v is an update record, not a promise of one.
IsUpdateRecord(v) == {"id", "url", "title", "dueDate"} \subseteq DOMAIN v

Count(s, tok) == Cardinality({k \in 1..Len(s) : s[k] = tok})

\* The reason of a formatted update: what follows the link.
ReasonPart(out) ==
    LET k == CHOOSE j \in 1..Len(out) : out[j] = "): "
    IN  SubSeq(out, k + 1, Len(out))

RECURSIVE ListItems(_)
\* Every update between <li> and </li>, one after the other.
ListItems(updates) ==
    IF Len(updates) = 0 THEN <<>>
    ELSE <<"<li>">> \o updates[1] \o <<"</li>\n">> \o ListItems(Tail(updates))

----------------------------------------------------------------------------
(* Claims *)

\* C1: a record built by getDeepDiveIssues has highPriority = true exactly
\* when its due date is within one day of the instant of the check and the
\* leader or the notetaker role is unfilled in the issue body.
C1_HighPriorityIffDueSoonAndRoleUnfilled ==
    [][\A i \in 1..Len(tasks) :
          Builds(i) =>
            (Truthy(tasks'[i].value, "highPriority")
               <=> /\ getTime(tasks[i].dueDate) - now <= oneDayMs
                   /\ (RoleUnfilled(issues[i].body, "Leader")
                        \/ RoleUnfilled(issues[i].body, "Notetaker")))]_vars

\* C2: the callback of an issue requests the comments exactly once when the
\* due date is within one day of the call, and never when it is further in
\* the future, in which case getMissingUpdates returns {pastDue: false} and
\* nothing else; no request is made at any later step.
C2_FetchOnlyWhenPastDue ==
    [][\A i \in 1..Len(tasks') :
          IF Len(tasks) = 0 THEN fetches'[i] = 0
          ELSE IF Calls(i)
          THEN IF getTime(tasks'[i].dueDate) - now > oneDayMs
               THEN /\ fetches'[i] = 0
                    /\ tasks'[i].missingUpdates = [pastDue |-> FALSE]
               ELSE /\ fetches'[i] = 1
                    /\ tasks'[i].pc = "awaitComments"
          ELSE fetches'[i] = fetches[i]]_vars

C2_Witness ==
    \E i, j \in Fulfilled :
        /\ fetches[i] = 0
        /\ tasks[i].value.missingUpdates = [pastDue |-> FALSE]
        /\ fetches[j] = 1
        /\ Truthy(tasks[j].value.missingUpdates, "pastDue")

\* C3: for a past-due issue, needsRecording is false exactly when some
\* comment contains the recording link and needsNotes is false exactly when
\* some comment contains the notes link; both are true without comments.
C3_NeedsFlagsFollowComments ==
    (muPc = "returned" /\ muFetches = 1) =>
        /\ muResult.needsRecording
             = ~(\E k \in 1..Len(muComments) : Includes(muComments[k], <<RecordingLink>>))
        /\ muResult.needsNotes
             = ~(\E k \in 1..Len(muComments) : Includes(muComments[k], <<NotesLink>>))
        /\ (muComments = <<>> => muResult.needsRecording /\ muResult.needsNotes)
        /\ muResult.pastDue

C3_Witness ==
    /\ muPc = "returned"
    /\ Len(muComments) = 2
    /\ Includes(muComments[1], <<NotesLink>>)
    /\ Includes(muComments[2], <<"text">>)
    /\ muResult.needsRecording
    /\ ~muResult.needsNotes

\* C4: pastDue is true exactly when the due date is at or before the
\* instant of the call minus one day.
C4_PastDueIffADayAgo ==
    [][(muPc = "call" /\ muPc' # "call") =>
          ((muPc' = "await" \/ Truthy(muResult', "pastDue"))
             <=> getTime(muDue) <= now - oneDayMs)]_vars

\* C5: in a record, missingFields.leader is true exactly when the leader
\* role is unfilled in the issue body, and missingFields.notetaker exactly
\* when the notetaker role is unfilled.
C5_MissingFieldsAreTheUnfilledRoles ==
    \A i \in Fulfilled :
        /\ tasks[i].value.missingFields.leader = RoleUnfilled(issues[i].body, "Leader")
        /\ tasks[i].value.missingFields.notetaker = RoleUnfilled(issues[i].body, "Notetaker")

\* C6: the reason of a formatted update is chosen by strict priority:
\* leader (with the notetaker extension exactly when the notetaker is
\* missing too), notetaker, notes, recording, else undefined; the warning
\* prefix is there exactly when highPriority is true.
C6_ReasonByPriority ==
    fmtLast # Undefined =>
        LET out == updatesArray[Len(updatesArray)]
            reason == ReasonPart(out)
            hp == Truthy(fmtLast, "highPriority")
            leader == fmtLast.missingFields.leader
            notetaker == fmtLast.missingFields.notetaker
            pastDue == Truthy(fmtLast.missingUpdates, "pastDue")
            notes == Truthy(fmtLast.missingUpdates, "needsNotes")
            recording == Truthy(fmtLast.missingUpdates, "needsRecording")
            volunteer == hp /\ (leader \/ notetaker)
        IN  /\ (hp /\ leader) =>
                  /\ reason[1] = "Needs a leader "
                  /\ reason[Len(reason)] = " to volunteer"
                  /\ (Count(reason, "and a notetaker") = 1) <=> notetaker
            /\ (hp /\ ~leader /\ notetaker) => reason = <<"Needs a notetaker to volunteer">>
            /\ (~volunteer /\ pastDue /\ notes) => reason = <<"Needs notes">>
            /\ (~volunteer /\ pastDue /\ ~notes /\ recording)
                  => reason = <<"Needs a rewatch recording">>
            /\ (~volunteer /\ ~(pastDue /\ (notes \/ recording))) => reason = <<"undefined">>
            /\ (Count(out, ":warning: Tomorrow's ") = 1) <=> hp
            /\ out[1] = ":warning: Tomorrow's " <=> hp

C6_Witness ==
    /\ fmtLast # Undefined
    /\ ~Truthy(fmtLast, "highPriority")
    /\ fmtLast.missingFields.leader
    /\ Truthy(fmtLast.missingUpdates, "pastDue")
    /\ Truthy(fmtLast.missingUpdates, "needsNotes")
    /\ Truthy(fmtLast.missingUpdates, "needsRecording")
    /\ ReasonPart(updatesArray[Len(updatesArray)]) = <<"Needs notes">>

\* C7: the digest of n formatted updates is the n updates in order, each
\* between <li> and </li>, and the empty string for n = 0; it holds n
\* opening and n closing markers.
C7_DigestWrapsEveryUpdate ==
    fmtPc = "joined" =>
        /\ fmtDigest = ListItems(updatesArray)
        /\ Count(fmtDigest, "<li>") = Len(updatesArray)
        /\ Count(fmtDigest, "</li>\n") = Len(updatesArray)

\* C8: once the processing of an issue has failed, the top-level function
\* has not returned a digest, and if it has finished it was rejected.
C8_NoDigestWhenAnIssueFails ==
    Rejected # {} => (topPc # "resolved" /\ topResult = <<>>)

C8_Witness ==
    /\ topPc = "rejected"
    /\ Len(tasks) = 2
    /\ tasks[1].pc = "fulfilled"
    /\ tasks[2].pc = "rejected"
    /\ tasks[2].error = "HttpError"

\* C9: the value getDeepDiveIssues resolves with is a list of update
\* records, one per issue and in the order of the issues.
C9_ResolvesWithRecordsInOrder ==
    gdiPc = "resolved" =>
        /\ Len(allIssues) = Len(issues)
        /\ \A k \in 1..Len(allIssues) :
              IF IsUpdateRecord(allIssues[k])
              THEN /\ allIssues[k].id = issues[k].id
                   /\ allIssues[k].url = issues[k].url
                   /\ allIssues[k].title = issues[k].title
              ELSE FALSE

\* C10, as claimed: in a record, highPriority implies pastDue, and pastDue
\* with a missing leader implies highPriority.
C10_HighPriorityImpliesPastDue ==
    \A i \in Fulfilled :
        LET v == tasks[i].value
        IN  /\ Truthy(v, "highPriority") => Truthy(v.missingUpdates, "pastDue")
            /\ (Truthy(v.missingUpdates, "pastDue") /\ v.missingFields.leader)
                  => Truthy(v, "highPriority")

\* C10, amended: in a record, pastDue with a missing leader implies
\* highPriority, whatever time passed between the two clock reads;
\* highPriority implies that the due date is within one day of the second
\* clock read and that the leader is missing.
C10_PastDueWithLeaderImpliesHighPriority ==
    [][\A i \in 1..Len(tasks) :
          Builds(i) =>
            LET v == tasks'[i].value
            IN  /\ (Truthy(v.missingUpdates, "pastDue") /\ v.missingFields.leader)
                      => Truthy(v, "highPriority")
                /\ Truthy(v, "highPriority") =>
                      /\ getTime(v.dueDate) - now <= oneDayMs
                      /\ v.missingFields.leader]_vars

C10_Witness ==
    \E i, j \in Fulfilled :
        /\ Truthy(tasks[i].value, "highPriority")
        /\ Truthy(tasks[i].value.missingUpdates, "pastDue")
        /\ Truthy(tasks[j].value, "highPriority")
        /\ ~Truthy(tasks[j].value.missingUpdates, "pastDue")

====
